---------------------------- MODULE Spec2Model ----------------------------
(***************************************************************************)
(* random_word: random selection and filtered lookup (by exact length or   *)
(* by first character) over embedded per-language word lists.              *)
(*                                                                         *)
(* The query API (all, gen, all_len, gen_len, all_starts_with,             *)
(* gen_starts_with) is src/src/lib.rs.  It reads the `words` module        *)
(* (words::get, words::get_len, words::get_starts_with), which holds the   *)
(* Word Store and the lazily built, memoized Index Layer.                  *)
(*                                                                         *)
(* A word is a sequence of characters, a corpus a sequence of words.       *)
(* Several callers (threads) issue queries; a filtered query whose         *)
(* language has no index yet builds it under an initialize-once guard, in  *)
(* a single pass over the corpus, and publishes it.                        *)
(***************************************************************************)
EXTENDS Integers, Sequences, FiniteSets, TLC

\* Longest corpus the model draws.
MaxWords == 2

\* Largest length a filtered query asks for (lengths 0..MaxLen).
MaxLen == 3

\* enum Lang: the languages of this build (two features enabled).
Lang == {"En", "Zh"}

\* The callers.
Threads == {"t1", "t2"}

\* The words a corpus is drawn from: non-empty, of two lengths, with first
\* characters that differ only by case.
Vocabulary == {<<"a">>, <<"b">>, <<"a", "b">>, <<"A", "b">>}

\* The characters a prefix query asks for; no word starts with "c".
QueryChars == {"a", "A", "b", "c"}

\* The lengths a length query asks for; no word has length 0 or MaxLen.
QueryLens == 0..MaxLen

\* Non-empty corpora of at most MaxWords words, duplicates allowed.
Corpora == UNION {[1..n -> Vocabulary] : n \in 1..MaxWords}

\* The corpus of the second language, fixed.
ZhCorpus == <<<<"b", "a">>, <<"a">>, <<"b", "a">>>>

VARIABLES
    wordStore,  \* Lang -> corpus: the embedded Word Store
    once,       \* Lang -> state of the language's initialize-once guard
    index,      \* Lang -> the published index, or NoIndex
    builds,     \* Lang -> number of index builds started (history)
    pc,         \* Thread -> "idle" | "build" | "wait"
    call,       \* Thread -> the language whose guard the thread is inside
    work,       \* Thread -> the index a builder is filling, and its position
    ret         \* what the last completed query returned

vars == <<wordStore, once, index, builds, pc, call, work, ret>>

-----------------------------------------------------------------------------
(* Option<T> *)

None == [some |-> FALSE]

Some(x) == [some |-> TRUE, val |-> x]

(* The outcome of a function that returns T or panics. *)

Panic == [panic |-> TRUE]

Returned(x) == [panic |-> FALSE, val |-> x]

NoIndex == [built |-> FALSE]

NoCall == [op |-> "none"]

NoLang == "none"

NoWork == [pos |-> 0, len |-> <<>>, ch |-> <<>>]

-----------------------------------------------------------------------------
(* words: the Word Store and the Index Layer *)

\* words::get(lang): the corpus of lang.
get(lang) == wordStore[lang]

\* The key of a word in the length index.
WordLen(w) == Len(w)

\* The key of a word in the prefix-character index.
FirstChar(w) == w[1]

\* Append w to the bucket of key k, creating the bucket when k is new.
Push(map, k, w) ==
    IF k \in DOMAIN map
    THEN [map EXCEPT ![k] = Append(@, w)]
    ELSE [x \in DOMAIN map \cup {k} |-> IF x = k THEN <<w>> ELSE map[x]]

\* One step of the build pass: the next word goes to the bucket of its
\* length and to the bucket of its first character.
PassStep(wk, corpus) ==
    LET w == corpus[wk.pos + 1]
    IN  [pos |-> wk.pos + 1,
         len |-> Push(wk.len, WordLen(w), w),
         ch  |-> Push(wk.ch, FirstChar(w), w)]

\* A guard that is a plain check of "not yet published": a caller that
\* arrives during a build runs the build too.
MustBuildRacy(lang) == once[lang] # "Complete"

\* Whether a caller that finds the guard in this state runs the build.
MustBuild(lang) == once[lang] = "Incomplete"

\* What a builder publishes at the end of its pass.
Published(wk) == [built |-> TRUE, len |-> wk.len, ch |-> wk.ch]

\* words::get_len(len, lang) on the published index.
get_len(len, lang) ==
    LET m == index[lang].len
    IN  IF len \in DOMAIN m THEN Some(m[len]) ELSE None

\* words::get_starts_with(char, lang) on the published index.
get_starts_with(char, lang) ==
    LET m == index[lang].ch
    IN  IF char \in DOMAIN m THEN Some(m[char]) ELSE None

-----------------------------------------------------------------------------
(* lib.rs: the query API.  A gen_* operator is the set of values the       *)
(* random draw can return.                                                 *)

\* slice.choose(&mut rng): None on an empty slice, else some element.
choose(s) == IF s = <<>> THEN {None} ELSE {Some(s[i]) : i \in DOMAIN s}

\* The greatest key of a non-empty map.
MaxKey(map) == CHOOSE k \in DOMAIN map : \A j \in DOMAIN map : j <= k

\* The buckets of a length map from key k on, one after the other.
RECURSIVE Flatten(_, _)
Flatten(map, k) ==
    IF k > MaxKey(map) THEN <<>>
    ELSE (IF k \in DOMAIN map THEN map[k] ELSE <<>>) \o Flatten(map, k + 1)

\* all served from the length index once it exists: the corpus regrouped.
all_from_index(lang) ==
    IF index[lang].built THEN Flatten(index[lang].len, 0) ELSE get(lang)

all(lang) == get(lang)

\* gen drawing from the English list whatever the language asked for.
gen_wrong_lang(lang) ==
    {IF o.some THEN Returned(o.val) ELSE Panic : o \in choose(get("En"))}

gen(lang) ==
    {IF o.some THEN Returned(o.val) ELSE Panic : o \in choose(get(lang))}

\* The tail of a sequence, empty for an empty one.
Rest(s) == IF s = <<>> THEN <<>> ELSE Tail(s)

\* all_len handing out the bucket without its first word.
all_len_tail(len, lang) ==
    LET b == get_len(len, lang)
    IN  IF b.some THEN Some(Rest(b.val)) ELSE None

\* all_len looking up the next length.
all_len_offset(len, lang) == get_len(len + 1, lang)

all_len(len, lang) == get_len(len, lang)

\* gen_len drawing from the whole corpus.
gen_len_unfiltered(len, lang) ==
    LET b == get_len(len, lang)
    IN  IF b.some THEN choose(get(lang)) ELSE {None}

\* gen_len unwrapping the lookup the way gen does.
gen_len_expect(len, lang) ==
    LET b == get_len(len, lang)
    IN  IF b.some THEN choose(b.val) ELSE {Panic}

gen_len(len, lang) ==
    LET b == get_len(len, lang)
    IN  IF b.some THEN choose(b.val) ELSE {None}

\* ASCII lower case.
Lower(c) == IF c = "A" THEN "a" ELSE c

\* A sequence back to front.
Reverse(s) == [i \in 1..Len(s) |-> s[Len(s) + 1 - i]]

\* all_starts_with handing out the bucket back to front.
all_starts_with_rev(char, lang) ==
    LET b == get_starts_with(char, lang)
    IN  IF b.some THEN Some(Reverse(b.val)) ELSE None

\* all_starts_with folding the case of the character asked for.
all_starts_with_folded(char, lang) == get_starts_with(Lower(char), lang)

all_starts_with(char, lang) == get_starts_with(char, lang)

\* gen_starts_with drawing from the bucket without its first word.
gen_starts_with_skip(char, lang) ==
    LET b == get_starts_with(char, lang)
    IN  IF b.some THEN choose(Rest(b.val)) ELSE {None}

gen_starts_with(char, lang) ==
    LET b == get_starts_with(char, lang)
    IN  IF b.some THEN choose(b.val) ELSE {None}

FilteredOps == {"all_len", "gen_len", "all_starts_with", "gen_starts_with"}

KeysOf(op) == IF op \in {"all_len", "gen_len"} THEN QueryLens ELSE QueryChars

\* The values filtered query c can return once the index of c.lang is
\* published.
Outcomes(c) ==
    CASE c.op = "all_len"         -> {all_len(c.key, c.lang)}
      [] c.op = "gen_len"         -> gen_len(c.key, c.lang)
      [] c.op = "all_starts_with" -> {all_starts_with(c.key, c.lang)}
      [] c.op = "gen_starts_with" -> gen_starts_with(c.key, c.lang)

-----------------------------------------------------------------------------
Init ==
    /\ wordStore \in {[l \in Lang |-> IF l = "En" THEN c ELSE ZhCorpus] :
                        c \in Corpora}
    /\ once = [l \in Lang |-> "Incomplete"]
    /\ index = [l \in Lang |-> NoIndex]
    /\ builds = [l \in Lang |-> 0]
    /\ pc = [t \in Threads |-> "idle"]
    /\ call = [t \in Threads |-> NoLang]
    /\ work = [t \in Threads |-> NoWork]
    /\ ret = NoCall

\* all(lang)
All(t, lang) ==
    /\ pc[t] = "idle"
    /\ ret' = [op |-> "all", lang |-> lang, val |-> all(lang)]
    /\ UNCHANGED <<wordStore, once, index, builds, pc, call, work>>

\* gen(lang)
Gen(t, lang) ==
    /\ pc[t] = "idle"
    /\ \E o \in gen(lang) : ret' = [op |-> "gen", lang |-> lang, out |-> o]
    /\ UNCHANGED <<wordStore, once, index, builds, pc, call, work>>

\* A filtered query on a language whose index is published.
Query(t, op, key, lang) ==
    /\ pc[t] = "idle"
    /\ once[lang] = "Complete"
    /\ \E v \in Outcomes([op |-> op, lang |-> lang, key |-> key]) :
            ret' = [op |-> op, lang |-> lang, key |-> key, val |-> v]
    /\ UNCHANGED <<wordStore, once, index, builds, pc, call, work>>

\* A filtered query on a language with no index: the caller takes the
\* guard and starts the build pass.
BeginBuild(t, lang) ==
    /\ pc[t] = "idle"
    /\ once[lang] # "Complete"
    /\ MustBuild(lang)
    /\ once' = [once EXCEPT ![lang] = "Running"]
    /\ builds' = [builds EXCEPT ![lang] = @ + 1]
    /\ pc' = [pc EXCEPT ![t] = "build"]
    /\ call' = [call EXCEPT ![t] = lang]
    /\ work' = [work EXCEPT ![t] = NoWork]
    /\ UNCHANGED <<wordStore, index, ret>>

\* The builder appends the next word of the corpus to its two buckets.
BuildStep(t) ==
    /\ pc[t] = "build"
    /\ work[t].pos < Len(get(call[t]))
    /\ work' = [work EXCEPT ![t] = PassStep(@, get(call[t]))]
    /\ UNCHANGED <<wordStore, once, index, builds, pc, call, ret>>

\* The pass is over: the builder publishes the index and releases the guard.
Publish(t) ==
    /\ pc[t] = "build"
    /\ work[t].pos = Len(get(call[t]))
    /\ index' = [index EXCEPT ![call[t]] = Published(work[t])]
    /\ once' = [once EXCEPT ![call[t]] = "Complete"]
    /\ pc' = [pc EXCEPT ![t] = "wait"]
    /\ work' = [work EXCEPT ![t] = NoWork]
    /\ UNCHANGED <<wordStore, builds, call, ret>>

\* A filtered query on a language whose index another caller is building:
\* the caller blocks on the guard.
Block(t, lang) ==
    /\ pc[t] = "idle"
    /\ once[lang] = "Running"
    /\ ~MustBuild(lang)
    /\ pc' = [pc EXCEPT ![t] = "wait"]
    /\ call' = [call EXCEPT ![t] = lang]
    /\ UNCHANGED <<wordStore, once, index, builds, work, ret>>

\* The guard is released: a caller inside a filtered query on that language
\* looks its key up in the published index and returns.  The operation and
\* its key are the caller's own arguments, read only here.
Resume(t, op, key) ==
    /\ pc[t] = "wait"
    /\ once[call[t]] = "Complete"
    /\ \E v \in Outcomes([op |-> op, lang |-> call[t], key |-> key]) :
            ret' = [op |-> op, lang |-> call[t], key |-> key, val |-> v]
    /\ pc' = [pc EXCEPT ![t] = "idle"]
    /\ call' = [call EXCEPT ![t] = NoLang]
    /\ UNCHANGED <<wordStore, once, index, builds, work>>

Next ==
    \E t \in Threads :
        \/ \E lang \in Lang : All(t, lang)
        \/ \E lang \in Lang : Gen(t, lang)
        \/ \E lang \in Lang : BeginBuild(t, lang)
        \/ \E lang \in Lang : Block(t, lang)
        \/ BuildStep(t)
        \/ Publish(t)
        \/ \E op \in FilteredOps : \E key \in KeysOf(op) :
              \/ \E lang \in Lang : Query(t, op, key, lang)
              \/ Resume(t, op, key)

Spec == Init /\ [][Next]_vars

-----------------------------------------------------------------------------
(* Properties *)

Contains(s, w) == \E i \in DOMAIN s : s[i] = w

Indexed(lang) == once[lang] = "Complete"

\* The index a complete pass over a corpus yields.
RECURSIVE Pass(_, _)
Pass(corpus, n) ==
    IF n = 0 THEN NoWork ELSE PassStep(Pass(corpus, n - 1), corpus)

\* C1: a word gen(lang) returned is an element of all(lang), and every value
\* gen(lang) can return is one; on a non-empty corpus gen does not panic.
C1_GenMember ==
    /\ \A l \in Lang : all(l) # <<>> =>
          \A o \in gen(l) : ~o.panic /\ Contains(all(l), o.val)
    /\ ret.op = "gen" /\ all(ret.lang) # <<>> =>
          ~ret.out.panic /\ Contains(all(ret.lang), ret.out.val)

C1_Witness ==
    /\ ret.op = "gen" /\ ret.lang = "Zh"
    /\ ~ret.out.panic
    /\ ret.out.val = all("Zh")[2]
    /\ ~Contains(all("En"), ret.out.val)

\* C2: a word gen_len(len, lang) returned is in all_len(len, lang) and has
\* length len; a word gen_starts_with(ch, lang) returned is in
\* all_starts_with(ch, lang) and its first character is ch.
C2_GenFiltered ==
    /\ ret.op = "gen_len" /\ ret.val.some =>
          /\ all_len(ret.key, ret.lang).some
          /\ Contains(all_len(ret.key, ret.lang).val, ret.val.val)
          /\ WordLen(ret.val.val) = ret.key
    /\ ret.op = "gen_starts_with" /\ ret.val.some =>
          /\ all_starts_with(ret.key, ret.lang).some
          /\ Contains(all_starts_with(ret.key, ret.lang).val, ret.val.val)
          /\ FirstChar(ret.val.val) = ret.key

C2_Witness ==
    /\ ret.op = "gen_len" /\ ret.lang = "En" /\ ret.key = 1
    /\ ret.val.some
    /\ \E i \in DOMAIN all("En") : WordLen(all("En")[i]) = 2

\* C3: once the index of lang is published, every word w of all(lang) is in
\* all_len(len(w), lang), which is present.
C3_LenComplete ==
    \A l \in Lang : Indexed(l) =>
        \A i \in DOMAIN all(l) :
            LET w == all(l)[i]
            IN  /\ all_len(WordLen(w), l).some
                /\ Contains(all_len(WordLen(w), l).val, w)

C3_Witness ==
    /\ Indexed("En")
    /\ Len(all("En")) = 2
    /\ WordLen(all("En")[1]) = 2 /\ WordLen(all("En")[2]) = 1
    /\ ret.op = "all_len" /\ ret.lang = "En" /\ ret.key = 1
    /\ ret.val = Some(<<all("En")[2]>>)

\* C4: once the index of lang is published, every word w of all(lang) is in
\* all_starts_with(first_char(w), lang), which is present, and every word
\* of all_starts_with(ch, lang) starts with exactly ch.
C4_PrefixComplete ==
    \A l \in Lang : Indexed(l) =>
        /\ \A i \in DOMAIN all(l) :
              LET w == all(l)[i]
              IN  /\ all_starts_with(FirstChar(w), l).some
                  /\ Contains(all_starts_with(FirstChar(w), l).val, w)
        /\ \A ch \in QueryChars : all_starts_with(ch, l).some =>
              \A i \in DOMAIN all_starts_with(ch, l).val :
                  FirstChar(all_starts_with(ch, l).val[i]) = ch

C4_Witness ==
    /\ Indexed("En")
    /\ all("En") = <<<<"A", "b">>, <<"a", "b">>>>
    /\ ret.op = "all_starts_with" /\ ret.lang = "En" /\ ret.key = "A"
    /\ ret.val = Some(<<<<"A", "b">>>>)


\* Whether some word of all(lang) has length len / starts with ch.
HasLen(len, l) == \E i \in DOMAIN all(l) : WordLen(all(l)[i]) = len

HasFirst(ch, l) == \E i \in DOMAIN all(l) : FirstChar(all(l)[i]) = ch

\* C5: when no word of all(lang) has length len, all_len and gen_len return
\* None; when none starts with ch, all_starts_with and gen_starts_with
\* return None.  The outcome is the value None, not a panic.
C5_NoMatchNone ==
    /\ \A l \in Lang : Indexed(l) =>
          /\ \A len \in QueryLens : ~HasLen(len, l) =>
                all_len(len, l) = None /\ gen_len(len, l) = {None}
          /\ \A ch \in QueryChars : ~HasFirst(ch, l) =>
                /\ all_starts_with(ch, l) = None
                /\ gen_starts_with(ch, l) = {None}
    /\ ret.op \in {"all_len", "gen_len"} /\ ~HasLen(ret.key, ret.lang) =>
          ret.val = None
    /\ ret.op \in {"all_starts_with", "gen_starts_with"}
            /\ ~HasFirst(ret.key, ret.lang) =>
          ret.val = None

C5_Witness ==
    /\ ret.op = "gen_starts_with" /\ ret.lang = "En" /\ ret.key = "A"
    /\ HasFirst("a", "En") /\ ~HasFirst("A", "En")
    /\ ret.val = None

\* C6: all_len(0, lang) is None and gen_len(0, lang) returns None, for
\* every language.
C6_LenZeroNone ==
    /\ \A l \in Lang : Indexed(l) =>
          all_len(0, l) = None /\ gen_len(0, l) = {None}
    /\ ret.op \in {"all_len", "gen_len"} /\ ret.key = 0 => ret.val = None

C6_Witness ==
    /\ ret.op = "all_len" /\ ret.key = 0 /\ ret.lang = "En"
    /\ ret.val = None
    /\ HasLen(1, "En")

\* C7: all_len(len, lang), when present, is the sub-sequence of all(lang) of
\* the words of length len, in the order of all(lang), duplicates kept;
\* all_starts_with(ch, lang) likewise for the words that start with ch.
C7_StablePartition ==
    \A l \in Lang : Indexed(l) =>
        /\ \A len \in QueryLens : all_len(len, l).some =>
              all_len(len, l).val =
                  SelectSeq(all(l), LAMBDA w : WordLen(w) = len)
        /\ \A ch \in QueryChars : all_starts_with(ch, l).some =>
              all_starts_with(ch, l).val =
                  SelectSeq(all(l), LAMBDA w : FirstChar(w) = ch)

C7_Witness ==
    /\ ret.op = "all_starts_with" /\ ret.lang = "Zh" /\ ret.key = "b"
    /\ ret.val = Some(<<<<"b", "a">>, <<"b", "a">>>>)
    /\ Indexed("En")
    /\ all("En") = <<<<"a", "b">>, <<"A", "b">>>>
    /\ all_len(2, "En") = Some(<<<<"a", "b">>, <<"A", "b">>>>)

\* C8: the index of a language is built at most once, by at most one caller
\* at a time, also when the first filtered queries on it are concurrent; an
\* index is visible exactly when its guard is complete, and the visible
\* index is the one a whole pass over the corpus yields.
C8_BuildOnce ==
    \A l \in Lang :
        /\ builds[l] <= 1
        /\ (builds[l] = 0) <=> (once[l] = "Incomplete")
        /\ Cardinality({t \in Threads : pc[t] = "build" /\ call[t] = l}) <= 1
        /\ Indexed(l) <=> index[l].built
        /\ Indexed(l) => index[l] = Published(Pass(all(l), Len(all(l))))

C8_Witness ==
    \E l \in Lang :
        /\ Indexed(l) /\ builds[l] = 1
        /\ \A t \in Threads : pc[t] = "wait" /\ call[t] = l

\* C9: no step changes what all(lang) returns, the steps of the index build
\* included.
C9_AllIdempotent == [][\A l \in Lang : all(l)' = all(l)]_vars

C9_Witness ==
    /\ ret.op = "all" /\ ret.lang = "En"
    /\ Indexed("En")
    /\ Len(ret.val) = 2
    /\ WordLen(ret.val[1]) > WordLen(ret.val[2])

\* C10: gen_len(len, lang) can return None exactly when all_len(len, lang)
\* is None, gen_starts_with(ch, lang) exactly when all_starts_with(ch, lang)
\* is None; a sequence all_len or all_starts_with returns is never empty.
C10_PresenceAgrees ==
    \A l \in Lang : Indexed(l) =>
        /\ \A len \in QueryLens :
              /\ (None \in gen_len(len, l)) <=> (all_len(len, l) = None)
              /\ all_len(len, l).some => all_len(len, l).val # <<>>
        /\ \A ch \in QueryChars :
              /\ (None \in gen_starts_with(ch, l))
                    <=> (all_starts_with(ch, l) = None)
              /\ all_starts_with(ch, l).some =>
                    all_starts_with(ch, l).val # <<>>

C10_Witness ==
    /\ ret.op = "gen_starts_with" /\ ret.lang = "En"
    /\ ret.val.some
    /\ Len(all_starts_with(ret.key, "En").val) = 1
    /\ Len(all("En")) = 2

====
